---- MODULE Spec2Model ----
(***************************************************************************)
(* Model of the claim-classification pipeline of main_beautiful.py:        *)
(* IndianNewsVerifier (_setup_gemini_ai, verify_news, _parse_ai_response,  *)
(* _create_analysis_prompt, _create_error_response), the script run of     *)
(* main and the URL branch of BeautifulUI.render_verification_form.        *)
(*                                                                         *)
(* Texts are sequences of one-character strings, so that Python's          *)
(* substring test ("x" in s) and the regular expression                    *)
(* CONFIDENCE_SCORE:\s*(\d+) are computed character by character.          *)
(***************************************************************************)
EXTENDS Integers, Sequences, FiniteSets, TLC

VARIABLES
    api_key,    \* AppConfig.GEMINI_API_KEY is non-empty
    model,      \* self.model: 0 is None, i is GenerativeModel(model_options[i])
    is_ready,   \* self.is_ready
    pc,         \* "init", "probe" (inside the for loop of the setup), "idle",
                \* "calling" (verify_news waits for generate_content),
                \* "returned" (verify_news has returned result to its caller)
    idx,        \* index in model_options of the next candidate to probe
    now,        \* datetime.now(), in seconds
    ai_text,    \* response.text of the last model call of verify_news
    result,     \* the Verdict verify_news returns, NoResult outside a call
    probe_log,  \* the probe calls generate_content("Test") made so far, in
                \* order: the candidate and how the call ended
    news_claim, \* the argument of the running verify_news
    request,    \* the prompt of the generate_content call in flight
    response,   \* how the generate_content call of verify_news ended:
                \* "NotCalled", "Raised", "None", "Text"
    model_calls, \* generate_content calls made by the running verify_news
    last_result, \* st.session_state.last_result: <<>> when the key is absent,
                 \* <<Verdict>> when it is present
    last_query,  \* st.session_state.last_query: <<>> when absent, <<text>>
    info_panel_visible, \* st.session_state.info_panel_visible
    verified_claim, \* history: <<>>, or <<the argument of the verify_news
                 \* call that returned the Verdict in last_result>>
    ui_pc,       \* position of the script run of main: "idle" (waiting for
                 \* an interaction), "buttons" (the input widget is drawn),
                 \* "process" (render_verification_form has returned),
                 \* "verify" (inside the spinner), "done" (after the branch)
    news_text,   \* news_text of render_verification_form and of main
    verify_clicked, \* the value st.button returned for Verify News
    is_example,  \* the third value render_verification_form returns
    messages,    \* the warnings, errors and notices shown in this run
    url,         \* the value of the URL text input
    http_requests, \* HTTP requests issued by this run
    http_response, \* how the request ended and what it returned
    extraction_method, \* extraction_method of the extractor
    extracted_text \* extracted_text of the extractor after its last write

\* the verifier object and the clock
verifierVars == <<api_key, model, is_ready, idx, probe_log>>
\* the locals of verify_news
callVars == <<ai_text, result, news_claim, request, response, model_calls>>

\* st.session_state
sessionVars == <<last_result, last_query, info_panel_visible, verified_claim>>
\* the locals of render_verification_form and of main
formVars == <<ui_pc, news_text, verify_clicked, is_example, messages>>
\* the locals of the URL branch of render_verification_form
extractVars == <<url, http_requests, http_response, extraction_method,
                 extracted_text>>
uiVars == <<sessionVars, formVars, extractVars>>

vars == <<api_key, model, is_ready, pc, idx, now, ai_text, result, probe_log,
          news_claim, request, response, model_calls, last_result, last_query,
          info_panel_visible, verified_claim,
          ui_pc, news_text, verify_clicked, is_example, messages, url,
          http_requests, http_response, extraction_method, extracted_text>>

----------------------------------------------------------------------------
(* Bounds *)

\* replies are concatenations of at most MaxFrags fragments
MaxFrags == 3
\* the clock runs from 0 to MaxClock
MaxClock == 1

----------------------------------------------------------------------------
(* Program constants *)

\* the four literal substrings tested by _parse_ai_response
PAT_TRUE ==
    <<"V","E","R","I","F","I","C","A","T","I","O","N","_","S","T","A","T","U","S",":"," ","T","R","U","E">>
PAT_FALSE ==
    <<"V","E","R","I","F","I","C","A","T","I","O","N","_","S","T","A","T","U","S",":"," ","F","A","L","S","E">>
PAT_PARTIALLY_TRUE ==
    <<"V","E","R","I","F","I","C","A","T","I","O","N","_","S","T","A","T","U","S",":"," ","P","A","R","T","I","A","L","L","Y","_","T","R","U","E">>
PAT_UNVERIFIED ==
    <<"V","E","R","I","F","I","C","A","T","I","O","N","_","S","T","A","T","U","S",":"," ","U","N","V","E","R","I","F","I","E","D">>
\* the literal prefix of the regular expression CONFIDENCE_SCORE:\s*(\d+)
PAT_CONFIDENCE ==
    <<"C","O","N","F","I","D","E","N","C","E","_","S","C","O","R","E",":">>

\* error messages of verify_news and _parse_ai_response
MSG_NOT_READY ==
    <<"A","I"," ","e","n","g","i","n","e"," ","n","o","t"," ","r","e","a","d","y">>
MSG_NO_RESPONSE ==
    <<"N","o"," ","r","e","s","p","o","n","s","e"," ","f","r","o","m"," ","A","I">>
MSG_ANALYSIS_FAILED ==
    <<"A","n","a","l","y","s","i","s"," ","f","a","i","l","e","d",":"," ">>
\* the prefix of every error analysis: the cross-mark character and a space
ERROR_MARK ==
    <<"CROSS_MARK"," ">>

\* the f-string of _create_analysis_prompt before and after {news_claim};
\* the two characters of the flag are named REGIONAL_I and REGIONAL_N
PROMPT_HEAD ==
    <<"\n"," "," "," "," "," "," "," "," ","REGIONAL_I","REGIONAL_N"," ","I","N","D","I",
      "A","N"," ","N","E","W","S"," ","F","A","C","T","-","C","H","E",
      "C","K"," ","A","N","A","L","Y","S","I","S","\n"," "," "," "," ",
      " "," "," "," ","=","=","=","=","=","=","=","=","=","=","=","=",
      "=","=","=","=","=","=","=","=","=","=","=","=","=","=","=","=",
      "=","=","=","=","=","=","=","=","=","\n"," "," "," "," "," "," ",
      " "," ","\n"," "," "," "," "," "," "," "," ","Y","o","u"," ","a",
      "r","e"," ","a","n"," ","e","x","p","e","r","t"," ","I","n","d",
      "i","a","n"," ","n","e","w","s"," ","f","a","c","t","-","c","h",
      "e","c","k","e","r"," ","w","i","t","h"," ","d","e","e","p"," ",
      "k","n","o","w","l","e","d","g","e"," ","o","f",":","\n"," "," ",
      " "," "," "," "," "," ","-"," ","I","n","d","i","a","n"," ","p",
      "o","l","i","t","i","c","s",","," ","g","o","v","e","r","n","m",
      "e","n","t",","," ","a","n","d"," ","c","u","r","r","e","n","t",
      " ","a","f","f","a","i","r","s","\n"," "," "," "," "," "," "," ",
      " ","-"," ","I","n","d","i","a","n"," ","m","e","d","i","a"," ",
      "l","a","n","d","s","c","a","p","e"," ","a","n","d"," ","r","e",
      "l","i","a","b","l","e"," ","s","o","u","r","c","e","s","\n"," ",
      " "," "," "," "," "," "," ","-"," ","I","n","d","i","a","n"," ",
      "c","u","l","t","u","r","a","l"," ","a","n","d"," ","s","o","c",
      "i","a","l"," ","c","o","n","t","e","x","t","\n"," "," "," "," ",
      " "," "," "," ","-"," ","C","o","m","m","o","n"," ","m","i","s",
      "i","n","f","o","r","m","a","t","i","o","n"," ","p","a","t","t",
      "e","r","n","s"," ","i","n"," ","I","n","d","i","a","\n"," "," ",
      " "," "," "," "," "," ","\n"," "," "," "," "," "," "," "," ","N",
      "E","W","S"," ","C","L","A","I","M"," ","T","O"," ","A","N","A",
      "L","Y","Z","E",":","\n"," "," "," "," "," "," "," "," ","\"">>
PROMPT_TAIL ==
    <<"\"","\n"," "," "," "," "," "," "," "," ","\n"," "," "," "," "," ",
      " "," "," ","P","l","e","a","s","e"," ","p","r","o","v","i","d",
      "e"," ","a","n","a","l","y","s","i","s"," ","i","n"," ","t","h",
      "i","s"," ","E","X","A","C","T"," ","f","o","r","m","a","t",":",
      "\n"," "," "," "," "," "," "," "," ","\n"," "," "," "," "," "," ",
      " "," ","V","E","R","I","F","I","C","A","T","I","O","N","_","S",
      "T","A","T","U","S",":"," ","[","T","R","U","E","/","F","A","L",
      "S","E","/","P","A","R","T","I","A","L","L","Y","_","T","R","U",
      "E","/","U","N","V","E","R","I","F","I","E","D","]","\n"," "," ",
      " "," "," "," "," "," ","C","O","N","F","I","D","E","N","C","E",
      "_","S","C","O","R","E",":"," ","[","0","-","1","0","0","]","\n",
      " "," "," "," "," "," "," "," ","\n"," "," "," "," "," "," "," ",
      " ","D","E","T","A","I","L","E","D","_","A","N","A","L","Y","S",
      "I","S",":","\n"," "," "," "," "," "," "," "," ","[","P","r","o",
      "v","i","d","e"," ","t","h","o","r","o","u","g","h"," ","e","x",
      "p","l","a","n","a","t","i","o","n"," ","o","f"," ","w","h","y",
      " ","t","h","i","s"," ","c","l","a","i","m"," ","i","s"," ","t",
      "r","u","e","/","f","a","l","s","e","]","\n"," "," "," "," "," ",
      " "," "," ","\n"," "," "," "," "," "," "," "," ","I","N","D","I",
      "A","N","_","C","O","N","T","E","X","T",":","\n"," "," "," "," ",
      " "," "," "," ","[","E","x","p","l","a","i","n"," ","r","e","l",
      "e","v","a","n","c","e"," ","t","o"," ","I","n","d","i","a","n",
      " ","p","o","l","i","t","i","c","s",","," ","s","o","c","i","e",
      "t","y",","," ","c","u","r","r","e","n","t"," ","e","v","e","n",
      "t","s","]","\n"," "," "," "," "," "," "," "," ","\n"," "," "," ",
      " "," "," "," "," ","E","V","I","D","E","N","C","E","_","C","H",
      "E","C","K",":","\n"," "," "," "," "," "," "," "," ","[","W","h",
      "a","t"," ","e","v","i","d","e","n","c","e"," ","s","u","p","p",
      "o","r","t","s"," ","o","r"," ","c","o","n","t","r","a","d","i",
      "c","t","s"," ","t","h","i","s"," ","c","l","a","i","m","]","\n",
      " "," "," "," "," "," "," "," ","\n"," "," "," "," "," "," "," ",
      " ","R","E","C","O","M","M","E","N","D","E","D","_","S","O","U",
      "R","C","E","S",":","\n"," "," "," "," "," "," "," "," ","[","L",
      "i","s","t"," ","s","p","e","c","i","f","i","c"," ","I","n","d",
      "i","a","n"," ","n","e","w","s"," ","s","o","u","r","c","e","s",
      " ","t","o"," ","v","e","r","i","f","y"," ","t","h","i","s"," ",
      "c","l","a","i","m","]","\n"," "," "," "," "," "," "," "," ","\n",
      " "," "," "," "," "," "," "," ","R","E","D","_","F","L","A","G",
      "S",":","\n"," "," "," "," "," "," "," "," ","[","A","n","y"," ",
      "w","a","r","n","i","n","g"," ","s","i","g","n","s"," ","o","r",
      " ","s","u","s","p","i","c","i","o","u","s"," ","e","l","e","m",
      "e","n","t","s"," ","i","n"," ","t","h","i","s"," ","c","l","a",
      "i","m","]","\n"," "," "," "," "," "," "," "," ","\n"," "," "," ",
      " "," "," "," "," ","C","O","N","C","L","U","S","I","O","N",":",
      "\n"," "," "," "," "," "," "," "," ","[","F","i","n","a","l"," ",
      "a","s","s","e","s","s","m","e","n","t"," ","w","i","t","h"," ",
      "r","e","a","s","o","n","i","n","g","]","\n"," "," "," "," "," ",
      " "," "," ">>

\* the section labels the prompt asks for
LABEL_VERIFICATION_STATUS ==
    <<"V","E","R","I","F","I","C","A","T","I","O","N","_","S","T","A","T","U","S">>
LABEL_CONFIDENCE_SCORE ==
    <<"C","O","N","F","I","D","E","N","C","E","_","S","C","O","R","E">>
LABEL_DETAILED_ANALYSIS ==
    <<"D","E","T","A","I","L","E","D","_","A","N","A","L","Y","S","I","S">>
LABEL_INDIAN_CONTEXT ==
    <<"I","N","D","I","A","N","_","C","O","N","T","E","X","T">>
LABEL_EVIDENCE_CHECK ==
    <<"E","V","I","D","E","N","C","E","_","C","H","E","C","K">>
LABEL_RECOMMENDED_SOURCES ==
    <<"R","E","C","O","M","M","E","N","D","E","D","_","S","O","U","R","C","E","S">>
LABEL_RED_FLAGS ==
    <<"R","E","D","_","F","L","A","G","S">>
LABEL_CONCLUSION ==
    <<"C","O","N","C","L","U","S","I","O","N">>
SECTION_LABELS ==
    {LABEL_VERIFICATION_STATUS,
     LABEL_CONFIDENCE_SCORE,
     LABEL_DETAILED_ANALYSIS,
     LABEL_INDIAN_CONTEXT,
     LABEL_EVIDENCE_CHECK,
     LABEL_RECOMMENDED_SOURCES,
     LABEL_RED_FLAGS,
     LABEL_CONCLUSION}

\* the claim of the example button
EXAMPLE_CLAIM ==
    <<"P","M"," ","M","o","d","i"," ","i","s"," ","t","h","e"," ","c","u","r","r","e","n","t"," ","P","r","i","m","e"," ","M","i","n","i","s","t","e","r"," ","o","f"," ","I","n","d","i","a">>

\* AppConfig.TRUSTED_SOURCES, each entry named by its outlet
TRUSTED_SOURCES ==
    <<"Times of India", "NDTV", "The Hindu", "Indian Express", "India Today",
      "Anandabazar Patrika", "The Statesman", "The Telegraph", "Alt News",
      "Boom Live", "The Quint WebQoof">>

\* model_options of _setup_gemini_ai
model_options ==
    <<"gemini-2.5-flash", "gemini-flash-latest",
      "models/gemini-2.5-flash", "models/gemini-flash-latest">>

\* characters matched by \d and by \s
Digits == {"0","1","2","3","4","5","6","7","8","9"}
Whitespace == {" ", "\n", "\t"}

NoResult == [status |-> "NONE"]
\* no HTTP request was made
NoResponse == [kind |-> "none"]
\* conf_match is None
NoMatch == -1

----------------------------------------------------------------------------
(* Python string primitives *)

\* s[i:i+len(pat)] == pat
StartsWithAt(s, i, pat) ==
    /\ i + Len(pat) - 1 <= Len(s)
    /\ \A k \in 1..Len(pat) : s[i + k - 1] = pat[k]

\* pat in s
Contains(s, pat) ==
    \E i \in 1..(Len(s) - Len(pat) + 1) : StartsWithAt(s, i, pat)

\* first position at or after i that holds no whitespace (\s*, greedy)
RECURSIVE SkipWhitespace(_, _)
SkipWhitespace(s, i) ==
    IF i <= Len(s) /\ s[i] \in Whitespace THEN SkipWhitespace(s, i + 1) ELSE i

\* first position at or after i that holds no digit (\d+, greedy)
RECURSIVE SkipDigits(_, _)
SkipDigits(s, i) ==
    IF i <= Len(s) /\ s[i] \in Digits THEN SkipDigits(s, i + 1) ELSE i

DigitValue(c) ==
    CASE c = "0" -> 0 [] c = "1" -> 1 [] c = "2" -> 2 [] c = "3" -> 3
      [] c = "4" -> 4 [] c = "5" -> 5 [] c = "6" -> 6 [] c = "7" -> 7
      [] c = "8" -> 8 [] c = "9" -> 9

\* int(d) for a string of decimal digits
RECURSIVE ToInt(_)
ToInt(d) ==
    IF d = <<>> THEN 0
    ELSE 10 * ToInt(SubSeq(d, 1, Len(d) - 1)) + DigitValue(d[Len(d)])

\* the regular expression CONFIDENCE_SCORE:\s*(\d+) matches at position i
RegexMatchesAt(s, i) ==
    /\ StartsWithAt(s, i, PAT_CONFIDENCE)
    /\ LET j == SkipWhitespace(s, i + Len(PAT_CONFIDENCE))
       IN  j <= Len(s) /\ s[j] \in Digits

\* re.search(r'CONFIDENCE_SCORE:\s*(\d+)', s) followed by int(group(1)):
\* the leftmost match, NoMatch when there is none
SearchConfidence(s) ==
    LET starts == {i \in 1..Len(s) : RegexMatchesAt(s, i)}
    IN  IF starts = {} THEN NoMatch
        ELSE LET i == CHOOSE m \in starts : \A n \in starts : m <= n
                 j == SkipWhitespace(s, i + Len(PAT_CONFIDENCE))
             IN  ToInt(SubSeq(s, j, SkipDigits(s, j) - 1))

\* index of the first character of s at or after i that is not whitespace
RECURSIVE FirstNonSpace(_, _)
FirstNonSpace(s, i) ==
    IF i <= Len(s) /\ s[i] \in Whitespace THEN FirstNonSpace(s, i + 1) ELSE i

\* index of the last character of s at or before i that is not whitespace
RECURSIVE LastNonSpace(_, _)
LastNonSpace(s, i) ==
    IF i >= 1 /\ s[i] \in Whitespace THEN LastNonSpace(s, i - 1) ELSE i

\* str.strip()
Strip(s) == SubSeq(s, FirstNonSpace(s, 1), LastNonSpace(s, Len(s)))

----------------------------------------------------------------------------
(* IndianNewsVerifier._parse_ai_response and _create_error_response *)

\* LookForStatus with the tests for TRUE and FALSE in the other order
LookForStatus_FalseFirst(text) ==
    IF Contains(text, PAT_FALSE) THEN [status |-> "FALSE", confidence |-> 90]
    ELSE IF Contains(text, PAT_TRUE) THEN [status |-> "TRUE", confidence |-> 85]
    ELSE IF Contains(text, PAT_PARTIALLY_TRUE)
         THEN [status |-> "PARTIALLY_TRUE", confidence |-> 70]
    ELSE IF Contains(text, PAT_UNVERIFIED)
         THEN [status |-> "UNVERIFIED", confidence |-> 30]
    ELSE [status |-> "UNVERIFIED", confidence |-> 50]

\* LookForStatus with the initial confidence 30 instead of 50
LookForStatus_Initial30(text) ==
    IF Contains(text, PAT_TRUE) THEN [status |-> "TRUE", confidence |-> 85]
    ELSE IF Contains(text, PAT_FALSE) THEN [status |-> "FALSE", confidence |-> 90]
    ELSE IF Contains(text, PAT_PARTIALLY_TRUE)
         THEN [status |-> "PARTIALLY_TRUE", confidence |-> 70]
    ELSE IF Contains(text, PAT_UNVERIFIED)
         THEN [status |-> "UNVERIFIED", confidence |-> 30]
    ELSE [status |-> "UNVERIFIED", confidence |-> 30]

\* LookForStatus with the seeds of TRUE and FALSE exchanged
LookForStatus_SeedsSwapped(text) ==
    IF Contains(text, PAT_TRUE) THEN [status |-> "TRUE", confidence |-> 90]
    ELSE IF Contains(text, PAT_FALSE) THEN [status |-> "FALSE", confidence |-> 85]
    ELSE IF Contains(text, PAT_PARTIALLY_TRUE)
         THEN [status |-> "PARTIALLY_TRUE", confidence |-> 70]
    ELSE IF Contains(text, PAT_UNVERIFIED)
         THEN [status |-> "UNVERIFIED", confidence |-> 30]
    ELSE [status |-> "UNVERIFIED", confidence |-> 50]

\* LookForStatus that tests the bare labels, without VERIFICATION_STATUS:
LookForStatus_BareLabels(text) ==
    IF Contains(text, <<"T","R","U","E">>)
    THEN [status |-> "TRUE", confidence |-> 85]
    ELSE IF Contains(text, <<"F","A","L","S","E">>)
    THEN [status |-> "FALSE", confidence |-> 90]
    ELSE IF Contains(text, <<"P","A","R","T","I","A","L","L","Y","_","T","R","U","E">>)
         THEN [status |-> "PARTIALLY_TRUE", confidence |-> 70]
    ELSE IF Contains(text, <<"U","N","V","E","R","I","F","I","E","D">>)
         THEN [status |-> "UNVERIFIED", confidence |-> 30]
    ELSE [status |-> "UNVERIFIED", confidence |-> 50]

\* the if/elif chain on the status substrings: status and seeded confidence
LookForStatus(text) ==
    IF Contains(text, PAT_TRUE) THEN [status |-> "TRUE", confidence |-> 85]
    ELSE IF Contains(text, PAT_FALSE) THEN [status |-> "FALSE", confidence |-> 90]
    ELSE IF Contains(text, PAT_PARTIALLY_TRUE)
         THEN [status |-> "PARTIALLY_TRUE", confidence |-> 70]
    ELSE IF Contains(text, PAT_UNVERIFIED)
         THEN [status |-> "UNVERIFIED", confidence |-> 30]
    ELSE [status |-> "UNVERIFIED", confidence |-> 50]

\* min(a, b)
Min(a, b) == IF a < b THEN a ELSE b

\* ExtractConfidence without the cap for UNVERIFIED
ExtractConfidence_NoCap(status, confidence, conf_match) ==
    IF conf_match # NoMatch
    THEN LET extracted_confidence == conf_match
         IN  IF status = "UNVERIFIED" /\ extracted_confidence > 50
             THEN extracted_confidence
             ELSE IF status \in {"TRUE", "FALSE", "PARTIALLY_TRUE"}
             THEN extracted_confidence
             ELSE confidence
    ELSE confidence

\* ExtractConfidence that takes the extracted value for every status
ExtractConfidence_AnyStatus(status, confidence, conf_match) ==
    IF conf_match # NoMatch
    THEN LET extracted_confidence == conf_match
         IN  IF status = "UNVERIFIED" /\ extracted_confidence > 50
             THEN Min(extracted_confidence, 50)
             ELSE extracted_confidence
    ELSE confidence

\* "Try to extract confidence score from AI response"
ExtractConfidence(status, confidence, conf_match) ==
    IF conf_match # NoMatch
    THEN LET extracted_confidence == conf_match
         IN  IF status = "UNVERIFIED" /\ extracted_confidence > 50
             THEN Min(extracted_confidence, 50)
             ELSE IF status \in {"TRUE", "FALSE", "PARTIALLY_TRUE"}
             THEN extracted_confidence
             ELSE confidence
    ELSE confidence

\* EnsureRanges that enforces nothing
EnsureRanges_None(status, confidence) == confidence

\* EnsureRanges with the corrected values of TRUE and PARTIALLY_TRUE exchanged
EnsureRanges_Values(status, confidence) ==
    IF status = "UNVERIFIED" /\ confidence > 50 THEN 30
    ELSE IF status = "TRUE" /\ confidence < 60 THEN 65
    ELSE IF status = "FALSE" /\ confidence < 70 THEN 80
    ELSE IF status = "PARTIALLY_TRUE" /\ confidence < 50 THEN 75
    ELSE confidence

\* EnsureRanges with <= in place of <
EnsureRanges_Inclusive(status, confidence) ==
    IF status = "UNVERIFIED" /\ confidence > 50 THEN 30
    ELSE IF status = "TRUE" /\ confidence <= 60 THEN 75
    ELSE IF status = "FALSE" /\ confidence <= 70 THEN 80
    ELSE IF status = "PARTIALLY_TRUE" /\ confidence <= 50 THEN 65
    ELSE confidence

\* "Ensure logical confidence ranges"
EnsureRanges(status, confidence) ==
    IF status = "UNVERIFIED" /\ confidence > 50 THEN 30
    ELSE IF status = "TRUE" /\ confidence < 60 THEN 75
    ELSE IF status = "FALSE" /\ confidence < 70 THEN 80
    ELSE IF status = "PARTIALLY_TRUE" /\ confidence < 50 THEN 65
    ELSE confidence

parse_ai_response(text, timestamp) ==
    LET seeded == LookForStatus(text)
        status == seeded.status
        extracted == ExtractConfidence(status, seeded.confidence,
                                       SearchConfidence(text))
    IN  [status     |-> status,
         confidence |-> EnsureRanges(status, extracted),
         analysis   |-> text,
         timestamp  |-> timestamp,
         sources    |-> SubSeq(TRUSTED_SOURCES, 1, 4),
         success    |-> TRUE]

\* _create_analysis_prompt with a plain string in place of the f-string
create_analysis_prompt_NoClaim(claim) == PROMPT_HEAD \o PROMPT_TAIL

\* _create_analysis_prompt: the f-string with news_claim substituted literally
create_analysis_prompt(claim) == PROMPT_HEAD \o claim \o PROMPT_TAIL

create_error_response(error_message, timestamp) ==
    [status     |-> "ERROR",
     confidence |-> 0,
     analysis   |-> ERROR_MARK \o error_message,
     timestamp  |-> timestamp,
     sources    |-> <<>>,
     success    |-> FALSE]

----------------------------------------------------------------------------
(* Inputs: the replies of the model and the errors it raises *)

\* str(n) for the integers the replies mention
Chars(n) ==
    CASE n = 40  -> <<"4","0">>
      [] n = 50  -> <<"5","0">>
      [] n = 60  -> <<"6","0">>
      [] n = 150 -> <<"1","5","0">>

Numerals == {Chars(n) : n \in {40, 50, 60, 150}}

\* the pieces replies are made of: the four status lines, the confidence
\* label, a space and the numerals
Fragments ==
    {PAT_TRUE, PAT_FALSE, PAT_PARTIALLY_TRUE, PAT_UNVERIFIED, PAT_CONFIDENCE,
     <<" ">>} \cup Numerals

RECURSIVE Concatenations(_)
Concatenations(n) ==
    IF n = 0 THEN {<<>>}
    ELSE LET shorter == Concatenations(n - 1)
         IN  shorter \cup {s \o f : s \in shorter, f \in Fragments}

\* response.text: every concatenation of at most MaxFrags fragments
Replies == Concatenations(MaxFrags)

\* response.text in the specification of the verifier: at most one fragment
ShortReplies == Concatenations(1)

\* str(e) of an exception raised by generate_content or by response.text
Exceptions == {<<"4","2","9">>, <<"b","l","o","c","k","e","d">>}

\* how one iteration of the probe loop can end
ProbeOutcomes == {"ctor_raise", "raise", "empty", "text"}

\* the values of the text area: empty, whitespace only, and with a letter
TextInputs ==
    {<<>>, <<" ">>, <<"\n", " ", "\t">>, <<"x">>, <<" ", "x", "\n">>}

\* news_claim: the example, a claim without a section label, a claim that
\* quotes one section label, and a claim that quotes two
Claims ==
    {EXAMPLE_CLAIM,
     <<"x">>,
     LABEL_CONCLUSION \o <<":"," ","f","a","k","e">>,
     LABEL_RED_FLAGS \o <<" ">> \o PAT_TRUE}

----------------------------------------------------------------------------
(* State machine *)

Init ==
    /\ api_key \in BOOLEAN
    /\ model = 0
    /\ is_ready = FALSE
    /\ pc = "init"
    /\ idx = 1
    /\ now = 0
    /\ ai_text = <<>>
    /\ result = NoResult
    /\ probe_log = <<>>
    /\ news_claim = <<>>
    /\ request = <<>>
    /\ response = "NotCalled"
    /\ model_calls = 0
    /\ last_result = <<>>
    /\ last_query = <<>>
    /\ info_panel_visible = TRUE
    /\ verified_claim = <<>>
    /\ ui_pc = "idle"
    /\ news_text = <<>>
    /\ verify_clicked = FALSE
    /\ is_example = FALSE
    /\ messages = {}
    /\ url = <<>>
    /\ http_requests = 0
    /\ http_response = NoResponse
    /\ extraction_method = ""
    /\ extracted_text = <<>>

\* SetupNoKey without the return: the loop over model_options starts
SetupNoKey_NoReturn ==
    /\ pc = "init"
    /\ ~api_key
    /\ pc' = "probe"
    /\ UNCHANGED <<verifierVars, now, callVars, uiVars>>

\* _setup_gemini_ai without an API key: report and return
SetupNoKey ==
    /\ pc = "init"
    /\ ~api_key
    /\ pc' = "idle"
    /\ UNCHANGED <<verifierVars, now, callVars, uiVars>>

\* _setup_gemini_ai with an API key: genai.configure, which either returns
\* (the loop over model_options starts) or raises (the outer except reports)
SetupConfigure ==
    /\ pc = "init"
    /\ api_key
    /\ \E raised \in BOOLEAN : pc' = IF raised THEN "idle" ELSE "probe"
    /\ UNCHANGED <<verifierVars, now, callVars, uiVars>>

\* SetupProbe without the break: the loop goes on after a candidate answered
SetupProbe_NoBreak(outcomes) ==
    /\ pc = "probe"
    /\ idx <= Len(model_options)
    /\ \E outcome \in outcomes :
         /\ model' = IF outcome = "ctor_raise" THEN model ELSE idx
         /\ probe_log' = IF outcome = "ctor_raise" THEN probe_log
                         ELSE Append(probe_log,
                                     [candidate |-> idx, outcome |-> outcome])
         /\ is_ready' = (is_ready \/ outcome = "text")
         /\ pc' = IF idx = Len(model_options) THEN "idle" ELSE "probe"
         /\ idx' = idx + 1
    /\ UNCHANGED <<api_key, now, callVars, uiVars>>

\* one iteration of the loop over model_options
\* outcome: the constructor raises, the probe raises, the probe returns an
\* empty reply, the probe returns text
SetupProbe(outcomes) ==
    /\ pc = "probe"
    /\ idx <= Len(model_options)
    /\ \E outcome \in outcomes :
         /\ model' = IF outcome = "ctor_raise" THEN model ELSE idx
         /\ probe_log' = IF outcome = "ctor_raise" THEN probe_log
                         ELSE Append(probe_log,
                                     [candidate |-> idx, outcome |-> outcome])
         /\ is_ready' = (outcome = "text")
         /\ pc' = IF outcome = "text" \/ idx = Len(model_options)
                  THEN "idle" ELSE "probe"
         /\ idx' = IF outcome = "text" THEN idx ELSE idx + 1
    /\ UNCHANGED <<api_key, now, callVars, uiVars>>

\* the clock advances between two calls
Tick ==
    /\ pc = "idle"
    /\ now < MaxClock
    /\ now' = now + 1
    /\ UNCHANGED <<verifierVars, pc, callVars, uiVars>>

\* VerifyNotReady without the guard on is_ready: the model is called
VerifyNotReady_Calls(claims) ==
    /\ pc = "idle"
    /\ ~is_ready
    /\ \E claim \in claims :
         /\ news_claim' = claim
         /\ request' = create_analysis_prompt(claim)
    /\ model_calls' = model_calls + 1
    /\ pc' = "calling"
    /\ UNCHANGED <<verifierVars, now, ai_text, result, response, uiVars>>

\* verify_news on a verifier that is not ready
VerifyNotReady(claims) ==
    /\ pc = "idle"
    /\ ~is_ready
    /\ \E claim \in claims : news_claim' = claim
    /\ result' = create_error_response(MSG_NOT_READY, now)
    /\ pc' = "returned"
    /\ UNCHANGED <<verifierVars, now, ai_text, request, response, model_calls, uiVars>>

\* verify_news on a ready verifier: the prompt is built and generate_content
\* is called with it
VerifyCall(claims) ==
    /\ pc = "idle"
    /\ is_ready
    /\ \E claim \in claims :
         /\ news_claim' = claim
         /\ request' = create_analysis_prompt(claim)
    /\ model_calls' = model_calls + 1
    /\ pc' = "calling"
    /\ UNCHANGED <<verifierVars, now, ai_text, result, response, uiVars>>

\* VerifyRaises that calls generate_content again, up to three times
VerifyRaises_Retry ==
    /\ pc = "calling"
    /\ \E e \in Exceptions :
         result' = create_error_response(MSG_ANALYSIS_FAILED \o e, now)
    /\ response' = "Raised"
    /\ IF model_calls < 3
       THEN /\ model_calls' = model_calls + 1
            /\ pc' = "calling"
            /\ request' = request
       ELSE /\ model_calls' = model_calls
            /\ pc' = "returned"
            /\ request' = <<>>
    /\ UNCHANGED <<verifierVars, now, ai_text, news_claim, uiVars>>

\* generate_content, or reading response.text, raises
VerifyRaises ==
    /\ pc = "calling"
    /\ \E e \in Exceptions :
         result' = create_error_response(MSG_ANALYSIS_FAILED \o e, now)
    /\ response' = "Raised"
    /\ request' = <<>>
    /\ pc' = "returned"
    /\ UNCHANGED <<verifierVars, now, ai_text, news_claim, model_calls, uiVars>>

\* generate_content returns no response object
VerifyNoResponse ==
    /\ pc = "calling"
    /\ result' = create_error_response(MSG_NO_RESPONSE, now)
    /\ response' = "None"
    /\ request' = <<>>
    /\ pc' = "returned"
    /\ UNCHANGED <<verifierVars, now, ai_text, news_claim, model_calls, uiVars>>

\* VerifyReplies without the test of response.text
VerifyReplies_NoEmptyCheck(replies) ==
    /\ pc = "calling"
    /\ \E text \in replies :
         /\ ai_text' = text
         /\ result' = parse_ai_response(text, now)
    /\ response' = "Text"
    /\ request' = <<>>
    /\ pc' = "returned"
    /\ UNCHANGED <<verifierVars, now, news_claim, model_calls, uiVars>>

\* generate_content returns a response with a text, which may be empty
VerifyReplies(replies) ==
    /\ pc = "calling"
    /\ \E text \in replies :
         /\ ai_text' = text
         /\ result' = IF text = <<>>
                      THEN create_error_response(MSG_NO_RESPONSE, now)
                      ELSE parse_ai_response(text, now)
    /\ response' = "Text"
    /\ request' = <<>>
    /\ pc' = "returned"
    /\ UNCHANGED <<verifierVars, now, news_claim, model_calls, uiVars>>

\* the caller of verify_news takes the Verdict; the locals of the call are gone
Return ==
    /\ pc = "returned"
    /\ pc' = "idle"
    /\ ai_text' = <<>>
    /\ result' = NoResult
    /\ news_claim' = <<>>
    /\ request' = <<>>
    /\ response' = "NotCalled"
    /\ model_calls' = 0
    /\ UNCHANGED <<verifierVars, now, uiVars>>

\* The parser under every reply: one claim, a first candidate that answers
Next ==
    \/ SetupNoKey
    \/ SetupConfigure
    \/ SetupProbe({"text"})
    \/ Tick
    \/ VerifyNotReady({EXAMPLE_CLAIM})
    \/ VerifyCall({EXAMPLE_CLAIM})
    \/ VerifyRaises
    \/ VerifyNoResponse
    \/ VerifyReplies(Replies)
    \/ Return

Spec == Init /\ [][Next]_vars

\* The verifier under every probe outcome and every claim, with short replies
NextVerifier ==
    \/ SetupNoKey
    \/ SetupConfigure
    \/ SetupProbe(ProbeOutcomes)
    \/ Tick
    \/ VerifyNotReady(Claims)
    \/ VerifyCall(Claims)
    \/ VerifyRaises
    \/ VerifyNoResponse
    \/ VerifyReplies(ShortReplies)
    \/ Return

SpecVerifier == Init /\ [][NextVerifier]_vars

----------------------------------------------------------------------------
(* The script run of main: render_verification_form, then the processing   *)
(* of the click. A run starts at every interaction and at st.rerun().      *)

\* the locals of a script run before it has assigned them
ResetForm ==
    /\ news_text' = <<>>
    /\ verify_clicked' = FALSE
    /\ is_example' = FALSE
    /\ messages' = {}

ResetExtract ==
    /\ url' = <<>>
    /\ http_requests' = 0
    /\ http_response' = NoResponse
    /\ extraction_method' = ""
    /\ extracted_text' = <<>>

\* input method "Type/Paste Text": news_text is the value of the text area
RenderTextInput(texts) ==
    /\ ui_pc = "idle"
    /\ pc = "idle"
    /\ \E text \in texts : news_text' = text
    /\ ui_pc' = "buttons"
    /\ UNCHANGED <<verifierVars, pc, now, callVars, sessionVars,
                   verify_clicked, is_example, messages, extractVars>>

\* the run was started by a click on Verify News
ClickVerify ==
    /\ ui_pc = "buttons"
    /\ verify_clicked' = TRUE
    /\ is_example' = FALSE
    /\ ui_pc' = "process"
    /\ UNCHANGED <<verifierVars, pc, now, callVars, sessionVars, news_text,
                   messages, extractVars>>

\* the run was started by a click on Try Example
ClickExample ==
    /\ ui_pc = "buttons"
    /\ news_text' = EXAMPLE_CLAIM
    /\ verify_clicked' = FALSE
    /\ is_example' = TRUE
    /\ ui_pc' = "process"
    /\ UNCHANGED <<verifierVars, pc, now, callVars, sessionVars, messages,
                   extractVars>>

\* the run was started by a click on Clear: st.rerun() ends it
ClickClear ==
    /\ ui_pc = "buttons"
    /\ ui_pc' = "idle"
    /\ ResetForm
    /\ ResetExtract
    /\ UNCHANGED <<verifierVars, pc, now, callVars, sessionVars>>

\* the run was started by another widget: no button returns True
NoClick ==
    /\ ui_pc = "buttons"
    /\ verify_clicked' = FALSE
    /\ is_example' = FALSE
    /\ ui_pc' = "process"
    /\ UNCHANGED <<verifierVars, pc, now, callVars, sessionVars, news_text,
                   messages, extractVars>>

\* ProcessSubmit with news_text in place of news_text.strip()
ProcessSubmit_NoStrip ==
    /\ ui_pc = "process"
    /\ (verify_clicked /\ news_text # <<>>) \/ is_example
    /\ last_query' = <<news_text>>
    /\ ui_pc' = "verify"
    /\ UNCHANGED <<verifierVars, pc, now, callVars, last_result,
                   info_panel_visible, verified_claim, news_text,
                   verify_clicked, is_example, messages, extractVars>>

\* the if branch of the processing, up to the call of verify_news
ProcessSubmit ==
    /\ ui_pc = "process"
    /\ (verify_clicked /\ Strip(news_text) # <<>>) \/ is_example
    /\ last_query' = <<news_text>>
    /\ ui_pc' = "verify"
    /\ UNCHANGED <<verifierVars, pc, now, callVars, last_result,
                   info_panel_visible, verified_claim, news_text,
                   verify_clicked, is_example, messages, extractVars>>

\* ProcessNoSubmit with the assignment of last_query before the if
ProcessNoSubmit_StoresQuery ==
    /\ ui_pc = "process"
    /\ ~((verify_clicked /\ Strip(news_text) # <<>>) \/ is_example)
    /\ last_query' = <<news_text>>
    /\ messages' = IF verify_clicked /\ Strip(news_text) = <<>>
                   THEN messages \cup {"enter some news text"}
                   ELSE messages
    /\ ui_pc' = "done"
    /\ UNCHANGED <<verifierVars, pc, now, callVars, last_result,
                   info_panel_visible, verified_claim, news_text,
                   verify_clicked, is_example, extractVars>>

\* the elif branch, and the run in which neither branch is taken
ProcessNoSubmit ==
    /\ ui_pc = "process"
    /\ ~((verify_clicked /\ Strip(news_text) # <<>>) \/ is_example)
    /\ messages' = IF verify_clicked /\ Strip(news_text) = <<>>
                   THEN messages \cup {"enter some news text"}
                   ELSE messages
    /\ ui_pc' = "done"
    /\ UNCHANGED <<verifierVars, pc, now, callVars, sessionVars, news_text,
                   verify_clicked, is_example, extractVars>>

\* verify_news(news_text) inside the spinner
SubmitNotReady == ui_pc = "verify" /\ VerifyNotReady({news_text})

SubmitCall == ui_pc = "verify" /\ VerifyCall({news_text})

SubmitRaises == ui_pc = "verify" /\ VerifyRaises

SubmitNoResponse == ui_pc = "verify" /\ VerifyNoResponse

SubmitReplies(replies) == ui_pc = "verify" /\ VerifyReplies(replies)

\* the result is stored and st.rerun() ends the run
StoreResult ==
    /\ ui_pc = "verify"
    /\ pc = "returned"
    /\ last_result' = <<result>>
    /\ verified_claim' = <<news_claim>>
    /\ ui_pc' = "idle"
    /\ pc' = "idle"
    /\ ai_text' = <<>>
    /\ result' = NoResult
    /\ news_claim' = <<>>
    /\ request' = <<>>
    /\ response' = "NotCalled"
    /\ model_calls' = 0
    /\ ResetForm
    /\ ResetExtract
    /\ UNCHANGED <<verifierVars, now, last_query, info_panel_visible>>

\* the run reaches the end of main
EndRun ==
    /\ ui_pc = "done"
    /\ ui_pc' = "idle"
    /\ ResetForm
    /\ ResetExtract
    /\ UNCHANGED <<verifierVars, pc, now, callVars, sessionVars>>

\* the clock advances between two runs
TickIdle == ui_pc = "idle" /\ Tick

\* The application under the text input, with a first candidate that answers
\* or raises, and short replies
NextUI ==
    \/ SetupNoKey
    \/ SetupConfigure
    \/ SetupProbe({"text", "raise"})
    \/ TickIdle
    \/ RenderTextInput(TextInputs)
    \/ ClickVerify
    \/ ClickExample
    \/ ClickClear
    \/ NoClick
    \/ ProcessSubmit
    \/ ProcessNoSubmit
    \/ SubmitNotReady
    \/ SubmitCall
    \/ SubmitRaises
    \/ SubmitNoResponse
    \/ SubmitReplies(ShortReplies)
    \/ StoreResult
    \/ EndRun

SpecUI == Init /\ [][NextUI]_vars

----------------------------------------------------------------------------
(* The URL branch of render_verification_form: texts and the parsed page  *)

\* the thresholds of the extractor
MIN_PART_LEN == 30
MIN_PARA_COUNT == 3
MAX_PARAGRAPHS == 50
MIN_SENTENCE_LEN == 50
MAX_SENTENCES == 30
MIN_TEXT_LEN == 80
MAX_TEXT_LEN == 2500

SCHEME_HTTP == <<"h","t","t","p",":","/","/">>
SCHEME_HTTPS == <<"h","t","t","p","s",":","/","/">>
GOOGLE_NEWS == <<"n","e","w","s",".","g","o","o","g","l","e",".","c","o","m">>

\* the elements soup(...) finds and decomposes
UNWANTED_TAGS ==
    {"script", "style", "nav", "header", "footer", "aside", "iframe",
     "noscript", "button", "form", "img", "svg", "video", "audio"}

\* the alternatives of article[-_]?body|article[-_]?content|story[-_]?body|
\* post[-_]?content
CLASS_PATTERNS ==
    {stem \o sep \o tail :
        stem \in {<<"a","r","t","i","c","l","e">>},
        sep \in {<<>>, <<"-">>, <<"_">>},
        tail \in {<<"b","o","d","y">>, <<"c","o","n","t","e","n","t">>}}
    \cup {<<"s","t","o","r","y">> \o sep \o <<"b","o","d","y">> :
             sep \in {<<>>, <<"-">>, <<"_">>}}
    \cup {<<"p","o","s","t">> \o sep \o <<"c","o","n","t","e","n","t">> :
             sep \in {<<>>, <<"-">>, <<"_">>}}

\* the alternatives of article|story|content|post
ID_PATTERNS ==
    {<<"a","r","t","i","c","l","e">>, <<"s","t","o","r","y">>,
     <<"c","o","n","t","e","n","t">>, <<"p","o","s","t">>}

SENTENCE_ENDS == {".", "!", "?"}

\* a class and an id that match the patterns
CLASS_ARTICLE_BODY == <<"A","r","t","i","c","l","e","-","B","o","d","y">>
ID_MAIN_CONTENT == <<"m","a","i","n","-","c","o","n","t","e","n","t">>

UpperLetters ==
    <<"A","B","C","D","E","F","G","H","I","J","K","L","M",
      "N","O","P","Q","R","S","T","U","V","W","X","Y","Z">>
LowerLetters ==
    <<"a","b","c","d","e","f","g","h","i","j","k","l","m",
      "n","o","p","q","r","s","t","u","v","w","x","y","z">>

\* the character c with re.I
LowerChar(c) ==
    IF \E k \in 1..Len(UpperLetters) : UpperLetters[k] = c
    THEN LowerLetters[CHOOSE k \in 1..Len(UpperLetters) : UpperLetters[k] = c]
    ELSE c

Lower(s) == [i \in 1..Len(s) |-> LowerChar(s[i])]

\* n times the character c
Rep(c, n) == [i \in 1..n |-> c]

\* sep.join(parts[k:])
RECURSIVE JoinFrom(_, _, _)
JoinFrom(parts, sep, k) ==
    IF k > Len(parts) THEN <<>>
    ELSE IF k = Len(parts) THEN parts[k]
    ELSE parts[k] \o sep \o JoinFrom(parts, sep, k + 1)

\* sep.join(parts)
Join(parts, sep) == JoinFrom(parts, sep, 1)

\* parts[:n]
Take(parts, n) == SubSeq(parts, 1, Min(Len(parts), n))

\* re.sub(r'\s+', ' ', s): every run of whitespace becomes one space
Collapse(s) ==
    LET marked == [i \in 1..Len(s) |->
                     [c |-> IF s[i] \in Whitespace THEN " " ELSE s[i],
                      drop |-> /\ s[i] \in Whitespace
                               /\ i > 1
                               /\ s[i - 1] \in Whitespace]]
        Kept(e) == ~e.drop
        kept == SelectSeq(marked, Kept)
    IN  [i \in 1..Len(kept) |-> kept[i].c]

\* the members of a set of integers in increasing order
RECURSIVE Sorted(_)
Sorted(S) ==
    IF S = {} THEN <<>>
    ELSE LET least == CHOOSE x \in S : \A y \in S : x <= y
         IN  <<least>> \o Sorted(S \ {least})

\* re.split(r'[.!?]+', s) without the empty strings
Sentences(s) ==
    LET starts == {i \in 1..Len(s) :
                      /\ s[i] \notin SENTENCE_ENDS
                      /\ (i = 1 \/ s[i - 1] \in SENTENCE_ENDS)}
        ends == {i \in 1..Len(s) :
                      /\ s[i] \notin SENTENCE_ENDS
                      /\ (i = Len(s) \/ s[i + 1] \in SENTENCE_ENDS)}
        from == Sorted(starts)
        to == Sorted(ends)
    IN  [k \in 1..Len(from) |-> SubSeq(s, from[k], to[k])]

\* a NavigableString and a Tag of the parsed page
Text(t) == [tag |-> "#text", class |-> <<>>, id |-> <<>>, text |-> t,
            kids |-> <<>>]
Element(tag, class, id, kids) ==
    [tag |-> tag, class |-> class, id |-> id, text |-> <<>>, kids |-> kids]

\* the page after element.decompose() on every unwanted element
RECURSIVE Decompose(_)
Decompose(node) ==
    LET Wanted(k) == k.tag \notin UNWANTED_TAGS
        keep == SelectSeq(node.kids, Wanted)
    IN  [node EXCEPT !.kids = [i \in 1..Len(keep) |-> Decompose(keep[i])]]

\* the nodes below node in document order
RECURSIVE Descendants(_), DescendantsFrom(_, _)
DescendantsFrom(kids, k) ==
    IF k > Len(kids) THEN <<>>
    ELSE <<kids[k]>> \o Descendants(kids[k]) \o DescendantsFrom(kids, k + 1)

Descendants(node) == DescendantsFrom(node.kids, 1)

\* node.get_text()
RECURSIVE GetText(_), GetTextFrom(_, _)
GetTextFrom(kids, k) ==
    IF k > Len(kids) THEN <<>>
    ELSE GetText(kids[k]) \o GetTextFrom(kids, k + 1)

GetText(node) ==
    IF node.tag = "#text" THEN node.text ELSE GetTextFrom(node.kids, 1)

\* node.find_all(tags)
FindAll(node, tags) ==
    LET Tagged(n) == n.tag \in tags
    IN  SelectSeq(Descendants(node), Tagged)

\* the first element of found, as a sequence of at most one element
First(found) == IF found = <<>> THEN <<>> ELSE <<found[1]>>

\* class_=re.compile(..., re.I) and id=re.compile(..., re.I)
ClassMatches(node) ==
    \E pat \in CLASS_PATTERNS : Contains(Lower(node.class), pat)
IdMatches(node) ==
    \E pat \in ID_PATTERNS : Contains(Lower(node.id), pat)

\* [p.get_text().strip() for p in paragraphs if len(...) > 30]
TextParts(paragraphs) ==
    LET stripped == [i \in 1..Len(paragraphs) |-> Strip(GetText(paragraphs[i]))]
        LongEnough(t) == Len(t) > MIN_PART_LEN
    IN  SelectSeq(stripped, LongEnough)

\* body.get_text(separator=' ', strip=True)
StrippedStrings(node) ==
    LET strings == FindAll(node, {"#text"})
        stripped == [i \in 1..Len(strings) |-> Strip(strings[i].text)]
        NonEmpty(t) == t # <<>>
    IN  Join(SelectSeq(stripped, NonEmpty), <<" ">>)

----------------------------------------------------------------------------
(* The four extraction methods, the cleaning and the URL branch *)

\* extracted_text and extraction_method before Method 1
NothingExtracted == [text |-> <<>>, method |-> ""]

\* the entries of article_selectors that are not None, in list order
ArticleSelectors(soup) ==
    LET ClassDiv(n) == n.tag = "div" /\ n.class # <<>> /\ ClassMatches(n)
        IdDiv(n) == n.tag = "div" /\ n.id # <<>> /\ IdMatches(n)
    IN  First(FindAll(soup, {"article"}))
        \o First(SelectSeq(Descendants(soup), ClassDiv))
        \o First(SelectSeq(Descendants(soup), IdDiv))
        \o First(FindAll(soup, {"main"}))

\* the loop over article_selectors from entry k on
RECURSIVE ArticleLoop(_, _)
ArticleLoop(selectors, k) ==
    IF k > Len(selectors) THEN NothingExtracted
    ELSE LET text_parts == TextParts(FindAll(selectors[k], {"p", "h2", "h3"}))
         IN  IF text_parts # <<>>
             THEN [text |-> Join(text_parts, <<" ">>),
                   method |-> "article structure"]
             ELSE ArticleLoop(selectors, k + 1)

\* Method 1: look for specific news article structures
ArticleStructure(soup) == ArticleLoop(ArticleSelectors(soup), 1)

\* len(div.find_all('p', recursive=False))
DirectParagraphs(div) ==
    Cardinality({i \in 1..Len(div.kids) : div.kids[i].tag = "p"})

\* ParagraphContainer that joins only the direct children of best_div
ParagraphContainer_DirectOnly(soup, prev) ==
    IF prev.text # <<>> THEN prev
    ELSE LET divs == FindAll(soup, {"div"})
             counts == [i \in 1..Len(divs) |-> DirectParagraphs(divs[i])]
             max_para_count ==
                 IF divs = <<>> THEN 0
                 ELSE CHOOSE c \in {counts[i] : i \in 1..Len(divs)} :
                          \A i \in 1..Len(divs) : counts[i] <= c
         IN  IF max_para_count >= MIN_PARA_COUNT
             THEN LET best == CHOOSE i \in 1..Len(divs) :
                                 /\ counts[i] = max_para_count
                                 /\ \A j \in 1..(i - 1) : counts[j] < max_para_count
                      IsP(n) == n.tag = "p"
                  IN  [text |-> Join(TextParts(SelectSeq(divs[best].kids, IsP)),
                                     <<" ">>),
                       method |-> "paragraph container"]
             ELSE prev

\* Method 2: the first div with the most direct-child paragraphs, if it has
\* three or more; all the paragraphs below it are joined
ParagraphContainer(soup, prev) ==
    IF prev.text # <<>> THEN prev
    ELSE LET divs == FindAll(soup, {"div"})
             counts == [i \in 1..Len(divs) |-> DirectParagraphs(divs[i])]
             max_para_count ==
                 IF divs = <<>> THEN 0
                 ELSE CHOOSE c \in {counts[i] : i \in 1..Len(divs)} :
                          \A i \in 1..Len(divs) : counts[i] <= c
         IN  IF max_para_count >= MIN_PARA_COUNT
             THEN LET best == CHOOSE i \in 1..Len(divs) :
                                 /\ counts[i] = max_para_count
                                 /\ \A j \in 1..(i - 1) : counts[j] < max_para_count
                  IN  [text |-> Join(TextParts(FindAll(divs[best], {"p"})),
                                     <<" ">>),
                       method |-> "paragraph container"]
             ELSE prev

\* Method 3: the first 50 paragraphs of the page that are long enough
AllParagraphs(soup, prev) ==
    IF prev.text # <<>> THEN prev
    ELSE LET text_parts == TextParts(FindAll(soup, {"p"}))
         IN  IF text_parts # <<>>
             THEN [text |-> Join(Take(text_parts, MAX_PARAGRAPHS), <<" ">>),
                   method |-> "all paragraphs"]
             ELSE prev

\* Method 4: the first 30 sentences of the body text that are long enough
FullBodyText(soup, prev) ==
    IF prev.text # <<>> THEN prev
    ELSE LET body == First(FindAll(soup, {"body"}))
         IN  IF body = <<>> THEN prev
             ELSE LET all_text == Strip(Collapse(StrippedStrings(body[1])))
                      sentences == Sentences(all_text)
                      stripped == [i \in 1..Len(sentences) |->
                                      Strip(sentences[i])]
                      Meaningful(t) == Len(t) > MIN_SENTENCE_LEN
                      meaningful_sentences == SelectSeq(stripped, Meaningful)
                  IN  IF meaningful_sentences # <<>>
                      THEN [text |-> Join(Take(meaningful_sentences,
                                               MAX_SENTENCES), <<".", " ">>),
                            method |-> "full body text"]
                      ELSE prev

\* found when its cleaned text is longer than 80 characters, else nothing
LongOnly(found) ==
    IF Len(Strip(Collapse(found.text))) > MIN_TEXT_LEN THEN found
    ELSE NothingExtracted

\* ExtractText that goes on to the next method after a text that is too short
ExtractText_SkipShort(page) ==
    LET soup == Decompose(page)
    IN  FullBodyText(soup,
            LongOnly(AllParagraphs(soup,
                LongOnly(ParagraphContainer(soup,
                    LongOnly(ArticleStructure(soup)))))))

\* ExtractText with Method 3 before Method 2
ExtractText_Reordered(page) ==
    LET soup == Decompose(page)
    IN  FullBodyText(soup,
            ParagraphContainer(soup,
                AllParagraphs(soup, ArticleStructure(soup))))

\* the methods in the order of the code
ExtractText(page) ==
    LET soup == Decompose(page)
    IN  FullBodyText(soup,
            AllParagraphs(soup,
                ParagraphContainer(soup, ArticleStructure(soup))))

\* what the URL branch leaves behind
Extraction(text, shown, requests, method, extracted) ==
    [news_text |-> text, messages |-> shown, http_requests |-> requests,
     extraction_method |-> method, extracted_text |-> extracted]

\* CleanAndValidate with >= in place of > on the length
CleanAndValidate_Inclusive(found, shown) ==
    IF found.text # <<>>
    THEN LET cleaned == Strip(Collapse(found.text))
         IN  IF Len(cleaned) >= MIN_TEXT_LEN
             THEN Extraction(Take(cleaned, MAX_TEXT_LEN),
                             shown \cup {"extracted"}, 1, found.method, cleaned)
             ELSE Extraction(<<>>, shown \cup {"too short"}, 1, found.method,
                             cleaned)
    ELSE Extraction(<<>>, shown \cup {"no meaningful text"}, 1, found.method,
                    <<>>)

\* CleanAndValidate that hands back the text that is too short
CleanAndValidate_ReturnsShort(found, shown) ==
    IF found.text # <<>>
    THEN LET cleaned == Strip(Collapse(found.text))
         IN  IF Len(cleaned) > MIN_TEXT_LEN
             THEN Extraction(Take(cleaned, MAX_TEXT_LEN),
                             shown \cup {"extracted"}, 1, found.method, cleaned)
             ELSE Extraction(cleaned, shown \cup {"too short"}, 1,
                             found.method, cleaned)
    ELSE Extraction(<<>>, shown \cup {"no meaningful text"}, 1, found.method,
                    <<>>)

\* the cleaning of extracted_text, the length test and the truncation
CleanAndValidate(found, shown) ==
    IF found.text # <<>>
    THEN LET cleaned == Strip(Collapse(found.text))
         IN  IF Len(cleaned) > MIN_TEXT_LEN
             THEN Extraction(Take(cleaned, MAX_TEXT_LEN),
                             shown \cup {"extracted"}, 1, found.method, cleaned)
             ELSE Extraction(<<>>, shown \cup {"too short"}, 1, found.method,
                             cleaned)
    ELSE Extraction(<<>>, shown \cup {"no meaningful text"}, 1, found.method,
                    <<>>)

\* Handler without the clause except Exception
Handler_NoCatchAll(kind) ==
    CASE kind = "timeout" -> "timeout"
      [] kind = "connection" -> "connection error"
      [] kind = "http_error" -> "http error"
      [] OTHER -> "uncaught"

\* the message of the except clause that catches the exception of this kind
Handler(kind) ==
    CASE kind = "timeout" -> "timeout"
      [] kind = "connection" -> "connection error"
      [] kind = "http_error" -> "http error"
      [] OTHER -> "error extracting"

\* Fetched without the test of final_url
Fetched_NoLandingCheck(target, fetched) ==
    LET google == Contains(target, GOOGLE_NEWS)
        detected == IF google THEN {"google detected"} ELSE {}
        raised == fetched.kind \in {"timeout", "connection", "other"}
    IN  IF raised
        THEN Extraction(<<>>,
                        detected \cup (IF google THEN {"google failed"} ELSE {})
                                 \cup {Handler(fetched.kind)},
                        1, "", <<>>)
        ELSE LET shown == detected \cup (IF google THEN {"found article"} ELSE {})
             IN  IF fetched.kind = "http_error"
                 THEN Extraction(<<>>, shown \cup {Handler("http_error")},
                                 1, "", <<>>)
                 ELSE CleanAndValidate(ExtractText(fetched.page), shown)

\* the try block once the request was sent: fetched is how it ended
Fetched(target, fetched) ==
    LET google == Contains(target, GOOGLE_NEWS)
        detected == IF google THEN {"google detected"} ELSE {}
        raised == fetched.kind \in {"timeout", "connection", "other"}
    IN  IF raised
        THEN Extraction(<<>>,
                        detected \cup (IF google THEN {"google failed"} ELSE {})
                                 \cup {Handler(fetched.kind)},
                        1, "", <<>>)
        ELSE IF google /\ Contains(fetched.final_url, GOOGLE_NEWS)
        THEN Extraction(<<>>,
                        detected \cup {"google unresolved", "google failed",
                                       "error extracting"},
                        1, "", <<>>)
        ELSE LET shown == detected \cup (IF google THEN {"found article"} ELSE {})
             IN  IF fetched.kind = "http_error"
                 THEN Extraction(<<>>, shown \cup {Handler("http_error")},
                                 1, "", <<>>)
                 ELSE CleanAndValidate(ExtractText(fetched.page), shown)

\* ExtractURL that sends the request before it looks at the scheme
ExtractURL_FetchFirst(target, fetched) ==
    IF Strip(target) = <<>>
    THEN Extraction(<<>>, {}, 0, "", <<>>)
    ELSE IF ~(StartsWithAt(target, 1, SCHEME_HTTP)
              \/ StartsWithAt(target, 1, SCHEME_HTTPS))
    THEN Extraction(<<>>, {"invalid url"}, 1, "", <<>>)
    ELSE Fetched(target, fetched)

\* the URL branch of render_verification_form
ExtractURL(target, fetched) ==
    IF Strip(target) = <<>>
    THEN Extraction(<<>>, {}, 0, "", <<>>)
    ELSE IF ~(StartsWithAt(target, 1, SCHEME_HTTP)
              \/ StartsWithAt(target, 1, SCHEME_HTTPS))
    THEN Extraction(<<>>, {"invalid url"}, 0, "", <<>>)
    ELSE Fetched(target, fetched)

----------------------------------------------------------------------------
(* Inputs of the URL branch: the URL typed, how the request ends, the page *)

\* paragraphs per container
MaxParas == 3

\* texts of a paragraph: exactly 30 characters; 31; 55 of which 40 are one
\* run of spaces, inside surrounding whitespace; 1000 in two sentences
TEXT_30 == Rep("a", 30)
TEXT_31 == Rep("b", 31)
TEXT_SPARSE ==
    <<" ", "\n">> \o Rep("c", 8) \o Rep(" ", 40) \o Rep("d", 7) \o <<"\t">>
TEXT_1000 == Rep("g", 500) \o <<".", " ">> \o Rep("h", 498)

ParaTexts == {TEXT_30, TEXT_31, TEXT_SPARSE, TEXT_1000}

\* the sequences of at most n paragraph texts
RECURSIVE ParaLists(_)
ParaLists(n) ==
    IF n = 0 THEN {<<>>}
    ELSE LET shorter == ParaLists(n - 1)
         IN  shorter \cup {Append(l, t) : l \in shorter, t \in ParaTexts}

P(t) == Element("p", <<>>, <<>>, <<Text(t)>>)
Paragraphs(texts) == [i \in 1..Len(texts) |-> P(texts[i])]
Strings(texts) == [i \in 1..Len(texts) |-> Text(texts[i])]
Plain(tag, kids) == Element(tag, <<>>, <<>>, kids)
Document(blocks) == Plain("[document]", <<Plain("body", blocks)>>)

\* pages without an article structure around one list of paragraph texts:
\* a div of paragraphs, the same with a paragraph in a blockquote, paragraphs
\* in the body, a div of strings, a div after an article of one paragraph,
\* a div after a nav
ContainerPages(texts) ==
    {Document(<<Plain("div", Paragraphs(texts))>>),
     Document(<<Plain("div", Paragraphs(texts)
                             \o <<Plain("blockquote", <<P(TEXT_31)>>)>>)>>),
     Document(Paragraphs(texts)),
     Document(<<Plain("div", Strings(texts))>>),
     Document(<<Plain("article", <<P(TEXT_31)>>),
                Plain("div", Paragraphs(texts))>>),
     Document(<<Plain("nav", <<P(TEXT_1000)>>),
                Plain("div", Paragraphs(texts))>>)}

\* pages with one article structure around one list of paragraph texts
ArticlePages(texts) ==
    {Document(<<Plain("article", Paragraphs(texts))>>),
     Document(<<Element("div", CLASS_ARTICLE_BODY, <<>>, Paragraphs(texts))>>),
     Document(<<Element("div", <<>>, ID_MAIN_CONTENT, Paragraphs(texts))>>),
     Document(<<Plain("main", Paragraphs(texts))>>)}

Pages ==
    UNION {ContainerPages(texts) : texts \in ParaLists(MaxParas)}
    \cup UNION {ArticlePages(texts) : texts \in ParaLists(MaxParas - 1)}

\* a page without text
EmptyPage == Document(<<>>)

URL_HTTPS == <<"h","t","t","p","s",":","/","/","a",".","i","n","/","n">>
URL_HTTP == <<"h","t","t","p",":","/","/","a",".","i","n","/","n">>
URL_GOOGLE == <<"h","t","t","p","s",":","/","/","n","e","w","s",".","g","o","o","g","l","e",".","c","o","m","/","r">>
URL_QUERY == <<"h","t","t","p","s",":","/","/","a",".","i","n","/","?","q","=","n","e","w","s",".","g","o","o","g","l","e",".","c","o","m">>

\* the values of the URL input: empty, blank, without a scheme, with another
\* scheme, with the scheme in capitals, with a leading space, and valid ones
URLs ==
    {<<>>, <<" ", " ">>,
     <<"a",".","i","n","/","n">>,
     <<"f","t","p",":","/","/","a",".","i","n">>,
     <<"H","T","T","P",":","/","/","a",".","i","n">>,
     <<" ","h","t","t","p",":","/","/","a",".","i","n">>,
     URL_HTTP, URL_HTTPS, URL_GOOGLE, URL_QUERY}

\* how the request for target can end; every page is served at URL_HTTPS
Outcomes(target) ==
    [kind : {"timeout", "connection", "other", "http_error"},
     final_url : {target}, page : {EmptyPage}]
    \cup [kind : {"ok"},
          final_url : IF Contains(target, GOOGLE_NEWS)
                      THEN {target, URL_HTTPS} ELSE {target},
          page : IF target = URL_HTTPS THEN Pages
                 ELSE ContainerPages(<<TEXT_31, TEXT_31, TEXT_31>>)
                      \cup {EmptyPage}]

\* input method "News URL": the URL branch runs on the value of the input
RenderURLInput(urls) ==
    /\ ui_pc = "idle"
    /\ pc = "idle"
    /\ \E target \in urls : \E fetched \in Outcomes(target) :
         LET e == ExtractURL(target, fetched)
         IN  /\ url' = target
             /\ http_requests' = e.http_requests
             /\ http_response' = IF e.http_requests = 0 THEN NoResponse
                                 ELSE fetched
             /\ news_text' = e.news_text
             /\ messages' = e.messages
             /\ extraction_method' = e.extraction_method
             /\ extracted_text' = e.extracted_text
    /\ ui_pc' = "buttons"
    /\ UNCHANGED <<verifierVars, pc, now, callVars, sessionVars,
                   verify_clicked, is_example>>

\* The URL branch under every URL, every end of the request and every page
NextExtract ==
    \/ SetupNoKey
    \/ SetupConfigure
    \/ SetupProbe({"text"})
    \/ RenderURLInput(URLs)
    \/ ClickClear
    \/ NoClick
    \/ ProcessNoSubmit
    \/ EndRun

SpecExtract == Init /\ [][NextExtract]_vars

----------------------------------------------------------------------------
(* The application: both input methods, the buttons and verify_news *)

\* the Hide Info / Show Info button of render_sidebar and its st.rerun()
ToggleInfoPanel ==
    /\ ui_pc = "idle"
    /\ pc = "idle"
    /\ info_panel_visible' = ~info_panel_visible
    /\ UNCHANGED <<verifierVars, pc, now, callVars, last_result, last_query,
                   verified_claim, formVars, extractVars>>

\* the URLs at which six pages and the empty page are served
AppURLs == URLs \ {URL_HTTPS}

\* an empty reply and a reply with a status and a score
AppReplies == {<<>>, PAT_FALSE \o PAT_CONFIDENCE \o Chars(40)}

\* The application under both input methods, every button, every end of the
\* request, a first candidate that answers, and two replies
NextApp ==
    \/ SetupNoKey
    \/ SetupConfigure
    \/ SetupProbe({"text"})
    \/ ToggleInfoPanel
    \/ RenderTextInput(TextInputs)
    \/ RenderURLInput(AppURLs)
    \/ ClickVerify
    \/ ClickExample
    \/ ClickClear
    \/ NoClick
    \/ ProcessSubmit
    \/ ProcessNoSubmit
    \/ SubmitNotReady
    \/ SubmitCall
    \/ SubmitRaises
    \/ SubmitNoResponse
    \/ SubmitReplies(AppReplies)
    \/ StoreResult
    \/ EndRun

SpecApp == Init /\ [][NextApp]_vars

----------------------------------------------------------------------------
(* Derived values used by the properties *)

\* a Verdict produced by _parse_ai_response is stored
Parsed == result.status # "NONE" /\ result.success

\* none of the four status substrings occurs in the reply
NoStatusLabel ==
    /\ ~Contains(ai_text, PAT_TRUE)
    /\ ~Contains(ai_text, PAT_FALSE)
    /\ ~Contains(ai_text, PAT_PARTIALLY_TRUE)
    /\ ~Contains(ai_text, PAT_UNVERIFIED)

\* the integer after CONFIDENCE_SCORE:, NoMatch when there is none
Score == SearchConfidence(ai_text)

TypeOK ==
    /\ api_key \in BOOLEAN
    /\ model \in 0..Len(model_options)
    /\ is_ready \in BOOLEAN
    /\ pc \in {"init", "probe", "idle", "calling", "returned"}
    /\ response \in {"NotCalled", "Raised", "None", "Text"}
    /\ model_calls \in 0..1
    /\ idx \in 1..(Len(model_options) + 1)
    /\ now \in 0..MaxClock
    /\ result.status \in {"NONE", "ERROR", "TRUE", "FALSE", "PARTIALLY_TRUE", "UNVERIFIED"}

----------------------------------------------------------------------------
(* Properties of _parse_ai_response *)

\* the status substrings in the order in which they are tested
StatusPriority ==
    <<[pat |-> PAT_TRUE,           label |-> "TRUE"],
      [pat |-> PAT_FALSE,          label |-> "FALSE"],
      [pat |-> PAT_PARTIALLY_TRUE, label |-> "PARTIALLY_TRUE"],
      [pat |-> PAT_UNVERIFIED,     label |-> "UNVERIFIED"]>>

\* positions in StatusPriority of the substrings that occur in the reply
Present == {k \in 1..Len(StatusPriority) : Contains(ai_text, StatusPriority[k].pat)}

\* the floor below which the confidence of a status is corrected
Floor(status) ==
    CASE status = "TRUE" -> 60
      [] status = "FALSE" -> 70
      [] status = "PARTIALLY_TRUE" -> 50

\* C1: the status of a parsed reply is the label of the first substring, in
\* the order TRUE, FALSE, PARTIALLY_TRUE, UNVERIFIED, that occurs in the reply,
\* and UNVERIFIED when none of the four occurs.
C1_FirstPresentWins ==
    Parsed =>
        IF Present = {} THEN result.status = "UNVERIFIED"
        ELSE \E k \in Present :
                /\ \A m \in Present : k <= m
                /\ result.status = StatusPriority[k].label

\* a reply in which FALSE occurs in the text before TRUE, and UNVERIFIED too
C1_Witness ==
    /\ Parsed
    /\ Present = {1, 2, 4}
    /\ StartsWithAt(ai_text, 1, PAT_FALSE)
    /\ result.status = "TRUE"

\* C2 as stated: a reply with none of the four status substrings and no
\* CONFIDENCE_SCORE integer is parsed to UNVERIFIED with confidence 30.
C2_Original ==
    (Parsed /\ NoStatusLabel /\ Score = NoMatch) =>
        (result.status = "UNVERIFIED" /\ result.confidence = 30)

\* C2 amended: a reply with none of the four status substrings and no
\* CONFIDENCE_SCORE integer is parsed to UNVERIFIED with confidence 50, the
\* value confidence is initialised with.
C2_DefaultIs50 ==
    (Parsed /\ NoStatusLabel /\ Score = NoMatch) =>
        (result.status = "UNVERIFIED" /\ result.confidence = 50)

\* a parsed reply that mentions CONFIDENCE_SCORE: without an integer and has
\* no status substring
C2_Witness ==
    /\ Parsed
    /\ NoStatusLabel
    /\ Score = NoMatch
    /\ Contains(ai_text, PAT_CONFIDENCE)

\* C3 as stated: for status UNVERIFIED and an extracted integer n, the
\* confidence is n when n <= 50 and 50 when n > 50.
C3_ExtractedOverridesUnverified ==
    (Parsed /\ result.status = "UNVERIFIED" /\ Score # NoMatch) =>
        result.confidence = (IF Score <= 50 THEN Score ELSE 50)

\* C4 as stated: the confidence of every Verdict is an integer in 0..100.
C4_ConfidenceInRange ==
    result.status # "NONE" => result.confidence \in 0..100

\* C5: after parsing, UNVERIFIED has confidence <= 50, TRUE >= 60,
\* FALSE >= 70 and PARTIALLY_TRUE >= 50.
C5_ConfidenceBounds ==
    Parsed =>
        /\ result.status = "UNVERIFIED" => result.confidence <= 50
        /\ result.status = "TRUE" => result.confidence >= 60
        /\ result.status = "FALSE" => result.confidence >= 70
        /\ result.status = "PARTIALLY_TRUE" => result.confidence >= 50

\* a TRUE reply whose extracted integer is below the bound of TRUE
C5_Witness ==
    /\ Parsed
    /\ result.status = "TRUE"
    /\ Score # NoMatch
    /\ Score < 60

\* C6: an extracted integer below the floor of the status is replaced by the
\* fixed value: 75 for TRUE (floor 60), 80 for FALSE (floor 70), 65 for
\* PARTIALLY_TRUE (floor 50).
C6_FloorCorrection ==
    (Parsed /\ Score # NoMatch) =>
        /\ (result.status = "TRUE" /\ Score < 60) => result.confidence = 75
        /\ (result.status = "FALSE" /\ Score < 70) => result.confidence = 80
        /\ (result.status = "PARTIALLY_TRUE" /\ Score < 50) => result.confidence = 65

\* the reply VERIFICATION_STATUS: FALSE with CONFIDENCE_SCORE: 40
C6_Witness ==
    /\ Parsed
    /\ Present = {2}
    /\ Score = 40
    /\ result.status = "FALSE"

\* C7: a reply that contains VERIFICATION_STATUS: UNVERIFIED, has status
\* UNVERIFIED and an extracted integer above 50 gets confidence exactly 50.
C7_UnverifiedCappedAt50 ==
    (/\ Parsed
     /\ Contains(ai_text, PAT_UNVERIFIED)
     /\ result.status = "UNVERIFIED"
     /\ Score # NoMatch
     /\ Score > 50) => result.confidence = 50

\* the reply VERIFICATION_STATUS: UNVERIFIED with CONFIDENCE_SCORE: 60
C7_Witness ==
    /\ Parsed
    /\ Present = {4}
    /\ result.status = "UNVERIFIED"
    /\ Score = 60

\* C8: a reply with a status substring and no CONFIDENCE_SCORE integer gets
\* the seeded confidence: TRUE 85, FALSE 90, PARTIALLY_TRUE 70, UNVERIFIED 30.
C8_SeededDefaults ==
    (Parsed /\ ~NoStatusLabel /\ Score = NoMatch) =>
        result.confidence =
            CASE result.status = "TRUE" -> 85
              [] result.status = "FALSE" -> 90
              [] result.status = "PARTIALLY_TRUE" -> 70
              [] result.status = "UNVERIFIED" -> 30

\* a FALSE reply that mentions CONFIDENCE_SCORE: without an integer
C8_Witness ==
    /\ Parsed
    /\ result.status = "FALSE"
    /\ Score = NoMatch
    /\ Contains(ai_text, PAT_CONFIDENCE)

\* C9: for status TRUE, FALSE or PARTIALLY_TRUE and an extracted integer that
\* is not below the floor of the status, the confidence is that integer.
C9_ExtractedKept ==
    (/\ Parsed
     /\ result.status \in {"TRUE", "FALSE", "PARTIALLY_TRUE"}
     /\ Score # NoMatch
     /\ Score >= Floor(result.status)) => result.confidence = Score

\* a TRUE reply whose extracted integer is the floor of TRUE
C9_Witness ==
    /\ Parsed
    /\ result.status = "TRUE"
    /\ Score = 60

----------------------------------------------------------------------------
(* Properties of _create_analysis_prompt, verify_news and _setup_gemini_ai *)

\* number of positions of s at which pat occurs
Occurrences(s, pat) ==
    Cardinality({i \in 1..(Len(s) - Len(pat) + 1) : StartsWithAt(s, i, pat)})

\* C11 as stated: the prompt contains the claim and each section label
\* exactly once, also when the claim contains a section label.
C11_Original ==
    pc = "calling" =>
        /\ Contains(request, news_claim)
        /\ \A l \in SECTION_LABELS : Occurrences(request, l) = 1

\* C11 amended: the prompt contains the claim, and each section label occurs
\* in it once more than it occurs in the claim: exactly once for a claim that
\* does not contain the label, more often for a claim that does.
C11_LabelsOncePlusClaim ==
    pc = "calling" =>
        /\ Contains(request, news_claim)
        /\ \A l \in SECTION_LABELS :
              Occurrences(request, l) = 1 + Occurrences(news_claim, l)

\* the prompt of a claim that contains the label CONCLUSION is in flight
C11_Witness ==
    /\ pc = "calling"
    /\ Contains(news_claim, LABEL_CONCLUSION)
    /\ Occurrences(request, LABEL_CONCLUSION) = 2
    /\ Occurrences(request, LABEL_RED_FLAGS) = 1

\* C12 as stated: verify_news on a verifier that is not ready returns an
\* ERROR Verdict whose analysis is "AI engine not ready" and calls no model.
C12_Original ==
    (pc = "returned" /\ ~is_ready) =>
        /\ result.status = "ERROR"
        /\ result.analysis = MSG_NOT_READY
        /\ model_calls = 0
        /\ response = "NotCalled"

\* C12 amended: verify_news on a verifier that is not ready returns an ERROR
\* Verdict whose analysis is the cross mark, a space and "AI engine not
\* ready", and calls no model, for every claim.
C12_NotReadyShortCircuit ==
    (pc = "returned" /\ ~is_ready) =>
        /\ result.status = "ERROR"
        /\ result.analysis = ERROR_MARK \o MSG_NOT_READY
        /\ model_calls = 0
        /\ response = "NotCalled"

\* verify_news has returned on a verifier all of whose candidates failed
C12_Witness ==
    /\ pc = "returned"
    /\ ~is_ready
    /\ api_key
    /\ Len(probe_log) = Len(model_options)
    /\ news_claim = EXAMPLE_CLAIM

\* the generate_content call of the running verify_news raised, returned no
\* response or returned an empty text
CallFailed ==
    \/ response \in {"Raised", "None"}
    \/ response = "Text" /\ ai_text = <<>>

\* C13: when the verifier is ready and the model call raises or returns an
\* absent or empty reply, verify_news returns status ERROR, confidence 0, no
\* sources and success false, and not a Verdict of _parse_ai_response.
C13_FailedCallGivesError ==
    (pc = "returned" /\ is_ready /\ CallFailed) =>
        /\ result.status = "ERROR"
        /\ result.confidence = 0
        /\ result.sources = <<>>
        /\ result.success = FALSE
        /\ ~Parsed

\* the model call of a ready verifier returned an empty text
C13_Witness ==
    /\ pc = "returned"
    /\ is_ready
    /\ response = "Text"
    /\ ai_text = <<>>

\* C14: a verify_news call on a ready verifier makes exactly one
\* generate_content call: never more than one, one while it waits and one
\* when it has returned, also when the call failed.
C14_OneModelCall ==
    /\ model_calls <= 1
    /\ (pc = "calling" => model_calls = 1)
    /\ (pc = "returned" /\ is_ready) => model_calls = 1
    /\ (pc = "returned" /\ is_ready /\ CallFailed) =>
            (model_calls = 1 /\ result.status = "ERROR")

\* verify_news has returned after a model call that raised
C14_Witness ==
    /\ pc = "returned"
    /\ is_ready
    /\ response = "Raised"
    /\ model_calls = 1

\* C15: without an API key the verifier is never ready, no probe call and no
\* model call is ever made, and every verify_news returns an ERROR Verdict.
C15_NoKeyNeverReady ==
    ~api_key =>
        /\ ~is_ready
        /\ probe_log = <<>>
        /\ model = 0
        /\ model_calls = 0
        /\ pc = "returned" => result.status = "ERROR"

\* a verify_news call made after the clock advanced has returned, no key
C15_Witness ==
    /\ ~api_key
    /\ pc = "returned"
    /\ result.status = "ERROR"
    /\ result.timestamp = MaxClock

\* C16: the candidates are probed in list order; the verifier is ready exactly
\* when the last probe returned text, the model is then that candidate, no
\* earlier probe returned text and nothing was probed after it; when every
\* probe failed the verifier is not ready.
C16_FirstAnsweringCandidate ==
    /\ \A i, j \in 1..Len(probe_log) :
          i < j => probe_log[i].candidate < probe_log[j].candidate
    /\ \A i \in 1..(Len(probe_log) - 1) : probe_log[i].outcome # "text"
    /\ is_ready <=> (probe_log # <<>> /\ probe_log[Len(probe_log)].outcome = "text")
    /\ is_ready => model = probe_log[Len(probe_log)].candidate
    /\ pc \in {"calling", "returned"} /\ model_calls = 1 =>
          /\ is_ready
          /\ model = probe_log[Len(probe_log)].candidate

\* a model call is made with the third candidate after two failed probes
C16_Witness ==
    /\ pc = "calling"
    /\ model = 3
    /\ Len(probe_log) = 3
    /\ probe_log[1].outcome = "raise"
    /\ probe_log[2].outcome = "empty"

----------------------------------------------------------------------------
(* Properties of main and render_verification_form *)

\* Verify News was clicked, Try Example was not, and the text is empty
\* after trimming
EmptyVerify == verify_clicked /\ ~is_example /\ Strip(news_text) = <<>>

\* C17: verify_news is only called with a claim that is non-empty after
\* trimming; a run in which Verify News was clicked on an empty or
\* whitespace-only text makes no verify_news or model call, leaves
\* last_result and last_query as they were and shows the warning.
C17_EmptyTextNotSubmitted ==
    /\ [](pc \in {"calling", "returned"} => Strip(news_claim) # <<>>)
    /\ []((ui_pc \in {"process", "done"} /\ EmptyVerify) =>
              (pc = "idle" /\ model_calls = 0 /\ result = NoResult))
    /\ []((ui_pc = "done" /\ EmptyVerify) =>
              "enter some news text" \in messages)
    /\ [][(ui_pc \in {"process", "done"} /\ EmptyVerify) =>
              /\ UNCHANGED <<sessionVars, pc, callVars>>
              /\ ui_pc' \in {"done", "idle"}]_vars

\* the warning is shown for a whitespace-only text while a Verdict of an
\* earlier run is stored
C17_Witness ==
    /\ ui_pc = "done"
    /\ EmptyVerify
    /\ news_text = <<"\n", " ", "\t">>
    /\ "enter some news text" \in messages
    /\ last_result # <<>>
    /\ last_query = <<EXAMPLE_CLAIM>>

----------------------------------------------------------------------------
(* Properties of the URL branch of render_verification_form *)

\* url.startswith(('http://', 'https://')) is false
InvalidScheme ==
    ~(StartsWithAt(url, 1, SCHEME_HTTP) \/ StartsWithAt(url, 1, SCHEME_HTTPS))

\* the validation failed: the warning is shown, no request was sent and
\* news_text is empty
Rejected ==
    /\ "invalid url" \in messages
    /\ http_requests = 0
    /\ http_response = NoResponse
    /\ news_text = <<>>

\* C18 as stated: every non-empty URL that starts with neither http:// nor
\* https:// fails the validation, without a request and with an empty text.
C18_Original == (url # <<>> /\ InvalidScheme) => Rejected

\* C18 amended: a URL that is non-empty after trimming and starts with neither
\* http:// nor https:// fails the validation, without a request and with an
\* empty text; a URL of whitespace only is skipped without a warning, also
\* without a request and with an empty text.
C18_InvalidSchemeRejected ==
    /\ (Strip(url) # <<>> /\ InvalidScheme) => Rejected
    /\ (url # <<>> /\ Strip(url) = <<>>) =>
          /\ "invalid url" \notin messages
          /\ http_requests = 0
          /\ http_response = NoResponse
          /\ news_text = <<>>

\* the validation failed for a URL with a space before the scheme
C18_Witness ==
    /\ ui_pc = "buttons"
    /\ url = <<" ","h","t","t","p",":","/","/","a",".","i","n">>
    /\ Rejected

\* t has no whitespace at its ends and no whitespace but single spaces
Collapsed(t) ==
    \A i \in 1..Len(t) :
        t[i] \in Whitespace =>
            /\ t[i] = " "
            /\ 1 < i
            /\ i < Len(t)
            /\ t[i + 1] \notin Whitespace

\* C19: the URL branch hands back a text only when the whitespace-collapsed
\* extracted text has more than 80 characters, and then its first 2500; when
\* a page was fetched and the extracted text has 80 characters or fewer the
\* text handed back is empty and the too-short error is shown (the
\* no-meaningful-text error when no method extracted anything).
C19_TooShortRejected ==
    /\ Collapsed(extracted_text)
    /\ news_text # <<>> =>
          /\ Len(extracted_text) > MIN_TEXT_LEN
          /\ news_text = Take(extracted_text, MAX_TEXT_LEN)
          /\ "extracted" \in messages
    /\ (http_response.kind = "ok" /\ "google unresolved" \notin messages
            /\ Len(extracted_text) <= MIN_TEXT_LEN) =>
          /\ news_text = <<>>
          /\ "extracted" \notin messages
          /\ IF extracted_text # <<>>
             THEN "too short" \in messages
             ELSE "no meaningful text" \in messages

\* three paragraphs of 55 characters each collapse to 50 characters in all
C19_Witness ==
    /\ ui_pc = "buttons"
    /\ Len(extracted_text) = 50
    /\ "too short" \in messages
    /\ news_text = <<>>
    /\ extraction_method = "paragraph container"

\* the page that was fetched
FetchedPage == http_response.page

\* the only div of the fetched page
OnlyDiv == FindAll(FetchedPage, {"div"})[1]

\* the paragraphs that are direct children of node
DirectParas(node) ==
    LET IsP(n) == n.tag = "p"
    IN  SelectSeq(node.kids, IsP)

\* the page of C20: fetched and parsed, without article, main or a div of a
\* matching class or id; its body holds one div,
\* which holds exactly three direct-child paragraphs, each longer than 30
\* characters after trimming
DenseDivPage ==
    /\ http_response.kind = "ok"
    /\ "google unresolved" \notin messages
    /\ FindAll(FetchedPage, {"article", "main"}) = <<>>
    /\ Len(FindAll(FetchedPage, {"div"})) = 1
    /\ ~ClassMatches(OnlyDiv)
    /\ ~IdMatches(OnlyDiv)
    /\ \E body \in {FetchedPage.kids[1]} :
          /\ body.tag = "body"
          /\ \E k \in 1..Len(body.kids) : body.kids[k] = OnlyDiv
    /\ Len(DirectParas(OnlyDiv)) = 3
    /\ \A k \in 1..3 :
          Len(Strip(GetText(DirectParas(OnlyDiv)[k]))) > MIN_PART_LEN

\* the three direct-child paragraphs, trimmed and joined by single spaces
ThreeJoined ==
    Join([k \in 1..3 |-> Strip(GetText(DirectParas(OnlyDiv)[k]))], <<" ">>)

AllJoined ==
    LET paragraphs == FindAll(OnlyDiv, {"p"})
        trimmed == [k \in 1..Len(paragraphs) |-> Strip(GetText(paragraphs[k]))]
        LongEnough(t) == Len(t) > MIN_PART_LEN
    IN  Strip(Collapse(Join(SelectSeq(trimmed, LongEnough), <<" ">>)))

----------------------------------------------------------------------------
(* Further properties of _parse_ai_response *)

\* the confidence before the block "Ensure logical confidence ranges"
BeforeRanges ==
    ExtractConfidence(LookForStatus(ai_text).status,
                      LookForStatus(ai_text).confidence, Score)

STATUS_PREFIX ==
    <<"V","E","R","I","F","I","C","A","T","I","O","N","_",
      "S","T","A","T","U","S",":"," ">>

\* C26: a parsed reply in which VERIFICATION_STATUS: occurs once, followed by
\* one of the four labels, gets that label as its status; PARTIALLY_TRUE is
\* not taken for TRUE.
C26_SingleLabelGetsItsStatus ==
    (Parsed /\ Occurrences(ai_text, STATUS_PREFIX) = 1) =>
        \A k \in 1..Len(StatusPriority) :
            Contains(ai_text, StatusPriority[k].pat) =>
                result.status = StatusPriority[k].label

\* a reply whose only status line is VERIFICATION_STATUS: PARTIALLY_TRUE
C26_Witness ==
    /\ Parsed
    /\ Occurrences(ai_text, STATUS_PREFIX) = 1
    /\ Contains(ai_text, PAT_PARTIALLY_TRUE)
    /\ result.status = "PARTIALLY_TRUE"
    /\ Score = 40

----------------------------------------------------------------------------
(* Properties of the extraction methods and of the Google News branch *)

\* the form has returned from the URL branch, which fetched and parsed a page
PageParsed ==
    /\ ui_pc = "buttons"
    /\ http_response.kind = "ok"
    /\ "google unresolved" \notin messages

\* what each method extracts from the fetched page when it runs first
MethodTexts ==
    LET soup == Decompose(FetchedPage)
    IN  <<ArticleStructure(soup).text,
          ParagraphContainer(soup, NothingExtracted).text,
          AllParagraphs(soup, NothingExtracted).text,
          FullBodyText(soup, NothingExtracted).text>>

MethodNames ==
    <<"article structure", "paragraph container", "all paragraphs",
      "full body text">>

\* the first method, in the order 1 to 4, whose text in texts is not empty;
\* 0 when every text is empty
FirstProductive(texts) ==
    IF \A k \in 1..Len(texts) : texts[k] = <<>> THEN 0
    ELSE CHOOSE k \in 1..Len(texts) :
            /\ texts[k] # <<>>
            /\ \A m \in 1..(k - 1) : texts[m] = <<>>

\* C22: the extracted text and the method name are those of the first method,
\* in the order article structure, paragraph container, all paragraphs, full
\* body text, that extracts a non-empty text from the page; when no method
\* extracts anything no text is handed back.
C22_FirstProductiveMethod ==
    PageParsed =>
        LET texts == MethodTexts
            first == FirstProductive(texts)
        IN  IF first = 0
            THEN /\ extracted_text = <<>>
                 /\ news_text = <<>>
                 /\ "no meaningful text" \in messages
            ELSE /\ extracted_text = Strip(Collapse(texts[first]))
                 /\ extraction_method = MethodNames[first]
                 /\ news_text \in {<<>>, Take(extracted_text, MAX_TEXT_LEN)}

\* paragraphs in the body outside any div: Method 3 is the first to extract
C22_Witness ==
    /\ ui_pc = "buttons"
    /\ PageParsed
    /\ FirstProductive(MethodTexts) = 3
    /\ extraction_method = "all paragraphs"
    /\ news_text # <<>>

\* the host of a URL: what follows :// up to the next : / ? or #
RECURSIVE HostEnd(_, _)
HostEnd(u, i) ==
    IF i <= Len(u) /\ u[i] \notin {":", "/", "?", "#"}
    THEN HostEnd(u, i + 1)
    ELSE i - 1

HostOf(u) ==
    LET start == IF StartsWithAt(u, 1, SCHEME_HTTPS) THEN Len(SCHEME_HTTPS) + 1
                 ELSE Len(SCHEME_HTTP) + 1
    IN  SubSeq(u, start, HostEnd(u, start))

\* C23 as stated: a request is made on the Google News branch exactly when
\* the host of the URL is news.google.com.
C23_AggregatorByHost ==
    http_requests = 1 =>
        ("google detected" \in messages <=> HostOf(url) = GOOGLE_NEWS)

\* C24: when the host of the URL is news.google.com and the host of the
\* landing URL is news.google.com too, the redirect error is shown, no
\* extraction method runs on the page and the text handed back is empty.
C24_UnresolvedRedirectFails ==
    (/\ http_requests = 1
     /\ http_response.kind \in {"ok", "http_error"}
     /\ HostOf(url) = GOOGLE_NEWS
     /\ HostOf(http_response.final_url) = GOOGLE_NEWS) =>
        /\ "google unresolved" \in messages
        /\ "error extracting" \in messages
        /\ "extracted" \notin messages
        /\ extraction_method = ""
        /\ extracted_text = <<>>
        /\ news_text = <<>>

\* a Google News URL that lands on Google News with a page that has text
C24_Witness ==
    /\ ui_pc = "buttons"
    /\ url = URL_GOOGLE
    /\ http_response.kind = "ok"
    /\ http_response.final_url = URL_GOOGLE
    /\ FirstProductive(MethodTexts) = 2
    /\ "google unresolved" \in messages
    /\ news_text = <<>>

\* C28: when the first method that extracts a non-empty text extracts 80
\* characters or fewer after cleaning, the too-short error is shown and the
\* text handed back is empty, whatever the later methods would extract.
C28_ShortFirstTextFails ==
    PageParsed =>
        LET texts == MethodTexts
            first == FirstProductive(texts)
        IN  (first # 0 /\ Len(Strip(Collapse(texts[first]))) <= MIN_TEXT_LEN) =>
                /\ "too short" \in messages
                /\ "extracted" \notin messages
                /\ news_text = <<>>
                /\ extraction_method = MethodNames[first]

\* an article of 31 characters before a div from which Method 2 would
\* extract more than 80
C28_Witness ==
    /\ ui_pc = "buttons"
    /\ PageParsed
    /\ FirstProductive(MethodTexts) = 1
    /\ Len(MethodTexts[1]) = 31
    /\ Len(Strip(Collapse(MethodTexts[2]))) > MIN_TEXT_LEN
    /\ "too short" \in messages
    /\ news_text = <<>>


----------------------------------------------------------------------------
(* Properties of the application: failures, failed extractions, the session *)

\* the statuses of a response of verify_news
VerdictStatuses == {"ERROR", "TRUE", "FALSE", "PARTIALLY_TRUE", "UNVERIFIED"}

\* the keys of a response of verify_news
VerdictKeys ==
    {"status", "confidence", "analysis", "timestamp", "sources", "success"}

\* the messages one of which ends the try block of the URL branch
FinalMessages ==
    {"extracted", "too short", "no meaningful text", "timeout",
     "connection error", "http error", "error extracting"}

\* C21: no failure of verify_news or of the URL branch escapes. When
\* verify_news returns, whether generate_content raised, gave no text or gave
\* a text, its result is a response with the six keys and one of the five
\* statuses, an ERROR response when the call failed. When the URL branch has sent
\* its request, however the request ended, exactly one final message is
\* shown, none of them for an exception that was not caught, and news_text is
\* the truncated extracted text or empty.
C21_FailuresAreCaught ==
    /\ pc = "returned" =>
         /\ DOMAIN result = VerdictKeys
         /\ result.status \in VerdictStatuses
         /\ response \in {"Raised", "None"} => result.status = "ERROR"
    /\ (ui_pc = "buttons" /\ http_requests = 1) =>
         /\ Cardinality(messages \cap FinalMessages) = 1
         /\ "uncaught" \notin messages
         /\ http_response.kind \in {"timeout", "connection", "other"} =>
              Handler(http_response.kind) \in messages
         /\ news_text = IF "extracted" \in messages
                        THEN Take(extracted_text, MAX_TEXT_LEN) ELSE <<>>

\* the request of the URL branch ended in an exception that is neither a
\* Timeout nor a ConnectionError nor an HTTPError, the example was submitted in
\* the same run and generate_content raised
C21_Witness ==
    /\ pc = "returned"
    /\ response = "Raised"
    /\ result.status = "ERROR"
    /\ http_response.kind = "other"
    /\ "error extracting" \in messages

\* the messages of the URL branch when it does not extract a text
FailureMessages ==
    {"invalid url", "google unresolved", "timeout", "connection error",
     "http error", "error extracting", "too short", "no meaningful text"}

\* the URL branch of this run failed
ExtractFailed == messages \cap FailureMessages # {}

\* C27: whenever the URL branch fails (invalid URL, unresolved Google News
\* redirect, timeout, connection error, HTTP error, no method produced text,
\* text too short, any other exception) the news_text it returns is empty, and
\* a run started by a click on Verify News then has an empty news_text, never
\* calls verify_news, and ends with the warning to enter some news text.
C27_FailedExtractHandsBackNothing ==
    ExtractFailed =>
        /\ ui_pc = "buttons" => news_text = <<>>
        /\ verify_clicked =>
             /\ news_text = <<>>
             /\ ui_pc \in {"process", "done"}
             /\ pc = "idle"
             /\ model_calls = 0
             /\ ui_pc = "done" => "enter some news text" \in messages

\* a text of at most 80 characters was extracted, Verify News was clicked and
\* the run ended with the warning
C27_Witness ==
    /\ ui_pc = "done"
    /\ verify_clicked
    /\ "too short" \in messages
    /\ extracted_text # <<>>
    /\ "enter some news text" \in messages
    /\ model_calls = 0

====
